---- MODULE Spec2Model ----
(***************************************************************************)
(* Model of backend/count_people.py: one run of main(), from the check of  *)
(* sys.argv to the end of the process.  The file system, the base64        *)
(* decoder and the YOLO detector are the environment: every library call   *)
(* either succeeds or raises an Exception carrying a message.              *)
(*                                                                         *)
(* Representation.  Strings that the code inspects (paths) are tuples of   *)
(* one-character strings.  Floats are fixed-point numbers in thousandths   *)
(* (Milli).  A local that is not bound yet is None (the empty tuple), a    *)
(* bound local is Some(v).  Exceptions are subclasses of Exception;        *)
(* KeyboardInterrupt and SystemExit raised by the environment are outside  *)
(* the model.                                                              *)
(***************************************************************************)
EXTENDS Integers, Sequences, FiniteSets, TLC

\* ------------------------------------------------------------------ bounds
MaxBoxes == 3
MaxResults == 2

\* ------------------------------------------------------ program constants
Milli == 1000
PersonClass == 0
Threshold == 500
B64Suffix == <<".", "b", "6", "4">>
TmpSuffix == <<".", "p", "n", "g">>
UsageMessage == "No image path provided"

\* ------------------------------------------------------------ option type
None == <<>>
Some(v) == <<v>>
Get(o) == o[1]

\* ------------------------------------------------------------- environment
Prog == <<"c", "p">>
Paths ==
  { <<"a", ".", "b", "6", "4">>,
    <<".", "b", "6", "4">>,
    <<"a", ".", "p", "n", "g">>,
    <<"a", "b", "6", "4">>,
    <<".", "b", "6", "4", "a">>,
    <<"a", ".", "B", "6", "4">>,
    <<"b">> }

\* sys.argv: the program name, then the arguments given on the command line
Argvs == { <<Prog>> } \cup { <<Prog, p>> : p \in Paths }

\* text held by the input file: valid base64, or base64 with bad padding
Contents == { "QUJD", "abc" }

\* messages carried by exceptions raised by the environment
Msgs == { "", "boom" }

\* the name tempfile.NamedTemporaryFile(suffix='.png') picks: fresh, so it
\* differs from every path the user can pass
TmpName == <<"t", "m", "p">> \o TmpSuffix

ClsValues == { PersonClass * Milli, (PersonClass + 1) * Milli }
ConfValues == { Threshold - 1, Threshold, Threshold + 1 }
Boxes == [ cls : ClsValues, conf : ConfValues ]

VARIABLES
  argv,          \* sys.argv
  inputExists,   \* environment: the file named on the command line exists
  content,       \* environment: the text that file holds
  pc,            \* position of the run in main / count_people
  input_path,    \* main: input_path
  b64_data,      \* main: b64_data
  decoded,       \* main: value of base64.b64decode(b64_data)
  tmp,           \* main: name of the open temporary file (tmp.name)
  image_path,    \* main: image_path
  count,         \* main: count
  cp_image_path, \* count_people: parameter image_path
  ret,           \* count_people: call site to return to
  model,         \* count_people: model
  results,       \* count_people: results
  person_count,  \* count_people: person_count
  exc,           \* the exception in flight / bound to e in the handler
  stdout,        \* lines written to standard output
  exitStatus,    \* exit status of the process, None while it runs
  fs,            \* names of the files that exist
  created,       \* history: temporary files created by the run
  deleted,       \* history: files removed by the run
  opened,        \* history: number of open() calls on the input
  cpCalls,       \* history: number of calls of count_people
  modelLoads,    \* history: number of YOLO(...) constructions
  modelCalls,    \* history: number of model(...) inferences
  detectorArg    \* history: path handed to model(...)

vars == << argv, inputExists, content, pc, input_path, b64_data, decoded,
           tmp, image_path, count, cp_image_path, ret, model, results,
           person_count, exc, stdout, exitStatus, fs, created, deleted,
           opened, cpCalls, modelLoads, modelCalls, detectorArg >>

envVars == << argv, inputExists, content >>
mainLocals == << input_path, b64_data, decoded, tmp, image_path, count >>
cpLocals == << cp_image_path, ret, model, results, person_count >>
outVars == << stdout, exitStatus >>
fsVars == << fs, created, deleted >>
histVars == << opened, cpCalls, modelLoads, modelCalls, detectorArg >>

\* ---------------------------------------------------------- pure functions

\* the suffix test written as a substring test: '.b64' in path
EndsWithAnywhere(s, suffix) ==
  \E i \in 1..Len(s) :
    /\ i + Len(suffix) - 1 <= Len(s)
    /\ SubSeq(s, i, i + Len(suffix) - 1) = suffix

\* str.endswith
EndsWith(s, suffix) ==
  /\ Len(s) >= Len(suffix)
  /\ SubSeq(s, Len(s) - Len(suffix) + 1, Len(s)) = suffix

\* int(x) of a non-negative float: truncation
IntOf(x) == x \div Milli

\* the threshold test written with >= in place of >
IsCountedInclusive(box) ==
  /\ IntOf(box.cls) = PersonClass
  /\ box.conf >= Threshold

\* lines 26-28: the test a box passes to be counted
IsCounted(box) ==
  /\ IntOf(box.cls) = PersonClass
  /\ box.conf > Threshold

\* lines 25-29: the inner loop, over result.boxes
RECURSIVE CountBoxes(_, _)
CountBoxes(boxes, acc) ==
  IF boxes = <<>> THEN acc
  ELSE CountBoxes(Tail(boxes), IF IsCounted(Head(boxes)) THEN acc + 1 ELSE acc)

\* lines 23-29: the outer loop, over results
RECURSIVE CountResults(_, _)
CountResults(rs, acc) ==
  IF rs = <<>> THEN acc
  ELSE CountResults(Tail(rs), CountBoxes(Head(rs).boxes, acc))

\* base64.b64decode(text): the bytes, or None when it raises binascii.Error
B64Decode(text) ==
  IF text = "QUJD" THEN Some("ABC") ELSE None

B64ErrorMessage == "Incorrect padding"

\* str(e)
Str(e) == e.msg

\* json.dumps of the two objects main prints
JsonResult(n, err) == [ count |-> n, error |-> err ]

\* ------------------------------------------------- the detector's answers
BoxSeqs(n) == UNION { [1..k -> Boxes] : k \in 0..n }

RECURSIVE SumSeq(_)
SumSeq(s) == IF s = <<>> THEN 0 ELSE Head(s) + SumSeq(Tail(s))

RECURSIVE Prefix(_, _)
Prefix(s, i) == IF i = 0 THEN 0 ELSE s[i] + Prefix(s, i - 1)

\* the boxes `flat`, cut into Len(sizes) Results objects
Split(flat, sizes) ==
  [ i \in 1..Len(sizes) |->
      [ boxes |-> SubSeq(flat, Prefix(sizes, i - 1) + 1, Prefix(sizes, i)) ] ]

\* every list of at most MaxResults Results holding at most MaxBoxes boxes
ResultLists ==
  { Split(flat, sizes) :
      <<flat, sizes>> \in
        { fz \in BoxSeqs(MaxBoxes) \X
                 UNION { [1..n -> 0..MaxBoxes] : n \in 0..MaxResults } :
            SumSeq(fz[2]) = Len(fz[1]) } }

\* ------------------------------------------------------------------- Init
Init ==
  /\ argv \in Argvs
  /\ inputExists \in BOOLEAN
  /\ content \in Contents
  /\ pc = "start"
  /\ input_path = None
  /\ b64_data = None
  /\ decoded = None
  /\ tmp = None
  /\ image_path = None
  /\ count = None
  /\ cp_image_path = None
  /\ ret = None
  /\ model = None
  /\ results = None
  /\ person_count = None
  /\ exc = None
  /\ stdout = <<>>
  /\ exitStatus = None
  /\ fs = IF Len(argv) >= 2 /\ inputExists THEN { argv[2] } ELSE {}
  /\ created = {}
  /\ deleted = {}
  /\ opened = 0
  /\ cpCalls = 0
  /\ modelLoads = 0
  /\ modelCalls = 0
  /\ detectorArg = None

\* raise an Exception with message m inside the try block of main
Raise(step, m) ==
  /\ exc' = Some([ step |-> step, msg |-> m ])
  /\ pc' = "except"

\* ---------------------------------------------------------------- actions

\* the usage branch ending with sys.exit() in place of sys.exit(1)
NoArgumentExitZero ==
  /\ pc = "start"
  /\ Len(argv) < 2
  /\ stdout' = Append(stdout, JsonResult(0, Some(UsageMessage)))
  /\ exitStatus' = Some(0)
  /\ pc' = "done"
  /\ UNCHANGED << envVars, mainLocals, cpLocals, exc, fsVars, histVars >>

\* lines 34-36: no argument on the command line
NoArgument ==
  /\ pc = "start"
  /\ Len(argv) < 2
  /\ stdout' = Append(stdout, JsonResult(0, Some(UsageMessage)))
  /\ exitStatus' = Some(1)
  /\ pc' = "done"
  /\ UNCHANGED << envVars, mainLocals, cpLocals, exc, fsVars, histVars >>

\* lines 34, 38: an argument is present
TakeArgument ==
  /\ pc = "start"
  /\ ~ (Len(argv) < 2)
  /\ input_path' = Some(argv[2])
  /\ pc' = "try"
  /\ UNCHANGED << envVars, b64_data, decoded, tmp, image_path, count,
                  cpLocals, exc, outVars, fsVars, histVars >>

\* line 42: choose the branch by the suffix of the path
Dispatch ==
  /\ pc = "try"
  /\ pc' = IF EndsWith(Get(input_path), B64Suffix) THEN "open"
           ELSE "call_direct"
  /\ UNCHANGED << envVars, mainLocals, cpLocals, exc, outVars, fsVars,
                  histVars >>

\* lines 44-45: open the input and read all of it
ReadB64 ==
  /\ pc = "open"
  /\ opened' = opened + 1
  /\ \/ /\ Get(input_path) \in fs
        /\ b64_data' = Some(content)
        /\ pc' = "mktemp"
        /\ exc' = exc
     \/ /\ Get(input_path) \notin fs
        /\ Raise("read", "No such file or directory")
        /\ b64_data' = b64_data
     \/ /\ \E m \in Msgs : Raise("read", m)
        /\ b64_data' = b64_data
  /\ UNCHANGED << envVars, input_path, decoded, tmp, image_path, count,
                  cpLocals, outVars, fsVars, cpCalls, modelLoads,
                  modelCalls, detectorArg >>

\* line 48: create the temporary file (delete=False)
CreateTemp ==
  /\ pc = "mktemp"
  /\ \/ /\ fs' = fs \cup { TmpName }
        /\ created' = created \cup { TmpName }
        /\ tmp' = Some(TmpName)
        /\ pc' = "decode"
        /\ exc' = exc
     \/ /\ \E m \in Msgs : Raise("mktemp", m)
        /\ UNCHANGED << fs, created, tmp >>
  /\ UNCHANGED << envVars, input_path, b64_data, decoded, image_path, count,
                  cpLocals, outVars, deleted, histVars >>

\* line 49, the argument of tmp.write: decode inside the with block; when it
\* raises, the with statement closes the file and leaves it on disk
DecodeB64 ==
  /\ pc = "decode"
  /\ IF B64Decode(Get(b64_data)) = None
       THEN /\ Raise("decode", B64ErrorMessage)
            /\ decoded' = decoded
       ELSE /\ decoded' = B64Decode(Get(b64_data))
            /\ pc' = "write"
            /\ exc' = exc
  /\ UNCHANGED << envVars, input_path, b64_data, tmp, image_path, count,
                  cpLocals, outVars, fsVars, histVars >>

\* lines 49-50 and the end of the with block: write, take the name, close
WriteTemp ==
  /\ pc = "write"
  /\ \/ /\ image_path' = tmp
        /\ pc' = "call_b64"
        /\ exc' = exc
     \/ /\ \E m \in Msgs : Raise("write", m)
        /\ image_path' = image_path
  /\ UNCHANGED << envVars, input_path, b64_data, decoded, tmp, count,
                  cpLocals, outVars, fsVars, histVars >>

\* line 52: call count_people on the temporary file
CallB64 ==
  /\ pc = "call_b64"
  /\ cp_image_path' = image_path
  /\ ret' = Some("unlink")
  /\ cpCalls' = cpCalls + 1
  /\ pc' = "load"
  /\ UNCHANGED << envVars, mainLocals, model, results, person_count, exc,
                  outVars, fsVars, opened, modelLoads, modelCalls,
                  detectorArg >>

\* line 56: call count_people on the path as given
CallDirect ==
  /\ pc = "call_direct"
  /\ cp_image_path' = input_path
  /\ ret' = Some("print")
  /\ cpCalls' = cpCalls + 1
  /\ pc' = "load"
  /\ UNCHANGED << envVars, mainLocals, model, results, person_count, exc,
                  outVars, fsVars, opened, modelLoads, modelCalls,
                  detectorArg >>

\* lines 14-17: import ultralytics and load the weights
LoadModel ==
  /\ pc = "load"
  /\ modelLoads' = modelLoads + 1
  /\ \/ /\ model' = Some("yolov8n.pt")
        /\ pc' = "infer"
        /\ exc' = exc
     \/ /\ \E m \in Msgs : Raise("load", m)
        /\ model' = model
  /\ UNCHANGED << envVars, mainLocals, cp_image_path, ret, results,
                  person_count, outVars, fsVars, opened, cpCalls, modelCalls,
                  detectorArg >>

\* line 20: run the detector on the image
Infer ==
  /\ pc = "infer"
  /\ modelCalls' = modelCalls + 1
  /\ detectorArg' = cp_image_path
  /\ \/ /\ Get(cp_image_path) \in fs
        /\ \E rs \in ResultLists : results' = Some(rs)
        /\ pc' = "count"
        /\ exc' = exc
     \/ /\ \E m \in Msgs : Raise("infer", m)
        /\ results' = results
  /\ UNCHANGED << envVars, mainLocals, cp_image_path, ret, model,
                  person_count, outVars, fsVars, opened, cpCalls, modelLoads >>

\* lines 23-29: count the persons above the threshold
CountLoop ==
  /\ pc = "count"
  /\ person_count' = Some(CountResults(Get(results), 0))
  /\ pc' = "return"
  /\ UNCHANGED << envVars, mainLocals, cp_image_path, ret, model, results,
                  exc, outVars, fsVars, histVars >>

\* line 31 and the assignment of lines 52 / 56
Return ==
  /\ pc = "return"
  /\ count' = person_count
  /\ pc' = Get(ret)
  /\ cp_image_path' = None
  /\ ret' = None
  /\ model' = None
  /\ results' = None
  /\ person_count' = None
  /\ UNCHANGED << envVars, input_path, b64_data, decoded, tmp, image_path,
                  exc, outVars, fsVars, histVars >>

\* line 53 left out: the temporary file is never removed
UnlinkSkipped ==
  /\ pc = "unlink"
  /\ pc' = "print"
  /\ UNCHANGED << envVars, mainLocals, cpLocals, exc, outVars, fsVars,
                  histVars >>

\* line 53: remove the temporary file
Unlink ==
  /\ pc = "unlink"
  /\ \/ /\ fs' = fs \ { Get(image_path) }
        /\ deleted' = deleted \cup { Get(image_path) }
        /\ pc' = "print"
        /\ exc' = exc
     \/ /\ \E m \in Msgs : Raise("unlink", m)
        /\ UNCHANGED << fs, deleted >>
  /\ UNCHANGED << envVars, mainLocals, cpLocals, outVars, created, histVars >>

\* line 58, then main returns and the interpreter exits with status 0
PrintResult ==
  /\ pc = "print"
  /\ stdout' = Append(stdout, JsonResult(Get(count), None))
  /\ exitStatus' = Some(0)
  /\ pc' = "done"
  /\ UNCHANGED << envVars, mainLocals, cpLocals, exc, fsVars, histVars >>

\* the handler with the print left out
ExceptHandlerSilent ==
  /\ pc = "except"
  /\ exitStatus' = Some(1)
  /\ pc' = "done"
  /\ UNCHANGED << envVars, mainLocals, cpLocals, exc, stdout, fsVars,
                  histVars >>

\* the handler with sys.exit(1) left out: main returns, status 0
ExceptHandlerExitZero ==
  /\ pc = "except"
  /\ stdout' = Append(stdout, JsonResult(0, Some(Str(Get(exc)))))
  /\ exitStatus' = Some(0)
  /\ pc' = "done"
  /\ UNCHANGED << envVars, mainLocals, cpLocals, exc, fsVars, histVars >>

\* the handler reporting the count computed before the failure
ExceptHandlerKeepsCount ==
  /\ pc = "except"
  /\ stdout' = Append(stdout,
                 JsonResult(IF count = None THEN 0 ELSE Get(count),
                            Some(Str(Get(exc)))))
  /\ exitStatus' = Some(1)
  /\ pc' = "done"
  /\ UNCHANGED << envVars, mainLocals, cpLocals, exc, fsVars, histVars >>

\* the handler calling the detector a second time after a detector failure
ExceptHandlerRetry ==
  /\ pc = "except"
  /\ IF Get(exc).step \in { "load", "infer" } /\ modelLoads < 2
       THEN /\ pc' = "load"
            /\ UNCHANGED outVars
       ELSE /\ stdout' = Append(stdout, JsonResult(0, Some(Str(Get(exc)))))
            /\ exitStatus' = Some(1)
            /\ pc' = "done"
  /\ UNCHANGED << envVars, mainLocals, cpLocals, exc, fsVars, histVars >>

\* the handler removing the temporary file before it reports
ExceptHandlerCleanup ==
  /\ pc = "except"
  /\ fs' = fs \ created
  /\ deleted' = deleted \cup (fs \cap created)
  /\ stdout' = Append(stdout, JsonResult(0, Some(Str(Get(exc)))))
  /\ exitStatus' = Some(1)
  /\ pc' = "done"
  /\ UNCHANGED << envVars, mainLocals, cpLocals, exc, created, histVars >>

\* lines 60-62: the handler of the try block
ExceptHandler ==
  /\ pc = "except"
  /\ stdout' = Append(stdout, JsonResult(0, Some(Str(Get(exc)))))
  /\ exitStatus' = Some(1)
  /\ pc' = "done"
  /\ UNCHANGED << envVars, mainLocals, cpLocals, exc, fsVars, histVars >>

Next ==
  \/ NoArgument
  \/ TakeArgument
  \/ Dispatch
  \/ ReadB64
  \/ CreateTemp
  \/ DecodeB64
  \/ WriteTemp
  \/ CallB64
  \/ CallDirect
  \/ LoadModel
  \/ Infer
  \/ CountLoop
  \/ Return
  \/ Unlink
  \/ PrintResult
  \/ ExceptHandler

Spec == Init /\ [][Next]_vars

\* ------------------------------------------------------ properties: terms

Done == pc = "done"
HasArg == Len(argv) >= 2
Failed == exc # None
FailedAt(steps) == exc # None /\ Get(exc).step \in steps

\* the path given on the command line ends with the four characters .b64
LiteralB64 ==
  /\ HasArg
  /\ Len(argv[2]) >= 4
  /\ argv[2][Len(argv[2]) - 3] = "."
  /\ argv[2][Len(argv[2]) - 2] = "b"
  /\ argv[2][Len(argv[2]) - 1] = "6"
  /\ argv[2][Len(argv[2])] = "4"

Succeeded == Len(stdout) = 1 /\ stdout[1].error = None

\* all the boxes of a list of Results, in order
RECURSIVE Flatten(_)
Flatten(rs) == IF rs = <<>> THEN <<>> ELSE Head(rs).boxes \o Flatten(Tail(rs))

Sizes(rs) == [ i \in 1..Len(rs) |-> Len(rs[i].boxes) ]

\* the boxes that are persons (class 0) with confidence above 0.5
Persons(flat) ==
  { i \in 1..Len(flat) : flat[i].cls = 0 /\ flat[i].conf > 500 }

\* ---------------------------------------------------------------- claims

\* C1: every run writes exactly one line to standard output before the
\* process ends: never more than one line is written, and when the process
\* has ended (missing argument, success, or any failure) exactly one is.
C1_ExactlyOneLine ==
  /\ Len(stdout) <= 1
  /\ exitStatus # None => Len(stdout) = 1
  /\ Done => exitStatus # None

C1_Witness ==
  /\ Done
  /\ FailedAt({ "unlink" })
  /\ Len(stdout) = 1

\* C2: the exit status is 0 exactly when the emitted object has error null,
\* and 1 exactly when no argument was given or some step raised.
C2_ExitStatus ==
  exitStatus # None =>
    /\ Get(exitStatus) \in { 0, 1 }
    /\ Len(stdout) >= 1
    /\ Get(exitStatus) = 0 <=> stdout[Len(stdout)].error = None
    /\ Get(exitStatus) = 1 <=> (~ HasArg \/ Failed)

C2_Witness ==
  /\ Done
  /\ exitStatus = Some(0)
  /\ Succeeded
  /\ LiteralB64

\* C3: count_people returns the number of boxes of class 0 with confidence
\* strictly above 0.5, and the same number for every reordering of the boxes.
C3_CountsPersonsAboveThreshold ==
  pc = "return" =>
    LET flat == Flatten(Get(results))
        n == Len(flat)
    IN /\ Get(person_count) = Cardinality(Persons(flat))
       /\ \A p \in Permutations(1..n) :
            CountResults(Split([ i \in 1..n |-> flat[p[i]] ],
                               Sizes(Get(results))), 0) = Get(person_count)

C3_Witness ==
  /\ pc = "return"
  /\ person_count = Some(1)
  /\ LET flat == Flatten(Get(results))
     IN /\ \E i \in 1..Len(flat) : flat[i] = [ cls |-> 0, conf |-> 500 ]
        /\ \E i \in 1..Len(flat) : flat[i] = [ cls |-> 0, conf |-> 501 ]
        /\ \E i \in 1..Len(flat) : flat[i] = [ cls |-> 1000, conf |-> 501 ]

\* C4: a run without an argument emits error "No image path provided" with
\* count 0 and status 1, and opens no file, creates no temporary file and
\* never reaches the detector.
C4_MissingArgument ==
  ~ HasArg =>
    /\ pc \in { "start", "done" }
    /\ opened = 0
    /\ created = {}
    /\ fs = {}
    /\ cpCalls = 0 /\ modelLoads = 0 /\ modelCalls = 0
    /\ Done =>
         /\ stdout = << [ count |-> 0,
                          error |-> << "No image path provided" >> ] >>
         /\ exitStatus = << 1 >>

C4_Witness ==
  /\ ~ HasArg
  /\ Done
  /\ Len(stdout) = 1
  /\ exitStatus = Some(1)

\* C5: when a step of the pipeline raises, control goes to the handler, and
\* the run ends having emitted count 0 with the message of the exception as
\* error, with status 1, also when a count had been computed before.
C5_FailureReported ==
  /\ Failed => pc \in { "except", "done" }
  /\ (Done /\ Failed) =>
       /\ stdout = << [ count |-> 0, error |-> << Get(exc).msg >> ] >>
       /\ stdout[1].error # None
       /\ exitStatus = << 1 >>

C5_Witness ==
  /\ Done
  /\ FailedAt({ "unlink" })
  /\ count # None
  /\ Get(count) > 0
  /\ stdout[1].count = 0

\* C6: for a .b64 input, the temporary file is removed after the detector
\* has returned and before the result is written, so that it does not exist
\* when a successful run ends.
C6_TempRemovedOnSuccess ==
  LiteralB64 =>
    /\ pc = "print" => (created = { TmpName } /\ TmpName \notin fs)
    /\ Succeeded => (created = { TmpName } /\ TmpName \notin fs)
    /\ (created # {} /\ TmpName \notin fs) =>
         (modelCalls = 1 /\ count # None /\ pc \in { "print", "done" })

C6_Witness ==
  /\ LiteralB64
  /\ Done
  /\ exitStatus = Some(0)
  /\ created = { TmpName }
  /\ TmpName \notin fs

\* C7: for a path that does not end with .b64 the detector receives the
\* path as given, no temporary file is created and no file is removed: the
\* files that exist are those that existed when the run started.
C7_DirectPathUntouched ==
  (HasArg /\ ~ LiteralB64) =>
    /\ created = {}
    /\ deleted = {}
    /\ tmp = None
    /\ fs = (IF inputExists THEN { argv[2] } ELSE {})
    /\ cp_image_path # None => cp_image_path = << argv[2] >>
    /\ detectorArg # None => detectorArg = << argv[2] >>
    /\ modelCalls > 0 => detectorArg = << argv[2] >>

C7_Witness ==
  /\ HasArg
  /\ ~ LiteralB64
  /\ Done
  /\ modelCalls = 1
  /\ detectorArg = << argv[2] >>
  /\ argv[2] \in fs

\* C8: the detector is invoked at most once in a run, exactly once in a run
\* that emits a successful count, and never when the run has no argument or
\* fails before the detector step.
C8_DetectorAtMostOnce ==
  /\ cpCalls <= 1 /\ modelLoads <= 1 /\ modelCalls <= 1
  /\ (Done /\ exitStatus = << 0 >>) =>
       (cpCalls = 1 /\ modelLoads = 1 /\ modelCalls = 1)
  /\ (~ HasArg \/ FailedAt({ "read", "mktemp", "decode", "write" })) =>
       (cpCalls = 0 /\ modelLoads = 0 /\ modelCalls = 0)

C8_Witness ==
  /\ Done
  /\ FailedAt({ "infer" })
  /\ modelCalls = 1
  /\ modelLoads = 1

\* C9: for a .b64 input, a run that fails once the temporary file has been
\* created ends with status 1 and the temporary file still on disk.
C9_TempLeakedOnFailure ==
  (LiteralB64 /\ Done /\ Failed /\ created # {}) =>
    /\ exitStatus = << 1 >>
    /\ TmpName \in fs

C9_Witness ==
  /\ LiteralB64
  /\ Done
  /\ FailedAt({ "load", "infer" })
  /\ TmpName \in fs
  /\ exitStatus = Some(1)

\* C10: for a .b64 input the temporary file is created only after the text
\* has been read and decoded, so a run whose read or decode fails leaves no
\* temporary file behind.
C10_TempOnlyAfterDecode ==
  /\ created # {} => decoded # None
  /\ FailedAt({ "read", "decode" }) => (created = {} /\ TmpName \notin fs)

====
